---- MODULE Spec2Model ----
(***************************************************************************)
(* QuickDefinition (src/app.py, src/build_database.py).                    *)
(*                                                                         *)
(* The Tk main loop runs every handler to completion, one at a time; the   *)
(* only other thread that touches the engine is the resolution worker      *)
(* started by fetch_definition, which talks to the main loop only through  *)
(* root.after(0, ...).  Texts are sequences of one-character strings so    *)
(* that strip(), capitalize() and COLLATE NOCASE are computed, not assumed. *)
(***************************************************************************)
EXTENDS Integers, Sequences, FiniteSets, TLC

\* ------------------------------------------------------------------ bounds
\* number of threading.Thread objects the model lets fetch_definition create
MaxThreads == 2

\* number of rows of the definitions table in the row-enumerating model
MaxRows == 3

\* "... LIMIT 8" of the suggestion query
SuggestionLimit == 8

\* ------------------------------------------------------------- text helpers
NULL == "NULL"

None == [state |-> "none"]

\* the entry's placeholder text, "Type a word to define..."
PLACEHOLDER ==
  << "T","y","p","e"," ","a"," ","w","o","r","d"," ","t","o"," ",
     "d","e","f","i","n","e",".",".","." >>

\* str.lower() on one character of the model's alphabet
LowerChar(c) ==
  CASE c = "A" -> "a"
    [] c = "C" -> "c"
    [] c = "D" -> "d"
    [] c = "E" -> "e"
    [] c = "T" -> "t"
    [] OTHER -> c

\* str.upper() on one character of the model's alphabet
UpperChar(c) ==
  CASE c = "a" -> "A"
    [] c = "c" -> "C"
    [] c = "d" -> "D"
    [] c = "e" -> "E"
    [] c = "t" -> "T"
    [] OTHER -> c

LowerSeq(s) == [i \in 1..Len(s) |-> LowerChar(s[i])]

\* str.capitalize(): first character upper-cased, the rest lower-cased
Capitalize(s) ==
  [i \in 1..Len(s) |-> IF i = 1 THEN UpperChar(s[i]) ELSE LowerChar(s[i])]

RECURSIVE LStrip(_)
LStrip(s) == IF s # <<>> /\ Head(s) = " " THEN LStrip(Tail(s)) ELSE s

RECURSIVE RStrip(_)
RStrip(s) ==
  IF s # <<>> /\ s[Len(s)] = " " THEN RStrip(SubSeq(s, 1, Len(s) - 1)) ELSE s

\* str.strip()
Strip(s) == RStrip(LStrip(s))

\* Python truthiness of a nullable TEXT value: None and '' are falsy
Truthy(e) == e # NULL /\ e # ""

Range(s) == {s[i] : i \in 1..Len(s)}

\* ------------------------------------------------------- the lexicon store
\* one row of table definitions(lemma, part_of_speech, synset, definition,
\* example); example is NULL when the synset has no example
Row(l, p, y, d, e) ==
  [lemma |-> l, part_of_speech |-> p, synset |-> y, definition |-> d,
   example |-> e]

CAT == <<"c","a","t">>
COT == <<"c","o","t">>

\* a wordnet.db as build_database.py writes it: one row per example
MainStore ==
  << Row(CAT, "n", "s1", "feline", "the cat sat"),
     Row(COT, "n", "s3", "a small bed", NULL),
     Row(CAT, "n", "s1", "feline", "a cat purrs"),
     Row(CAT, "v", "s2", "to flog", NULL) >>

CAR == <<"c","a","r">>
CATS == <<"c","a","t","s">>
CARE == <<"c","a","r","e">>
CAB == <<"c","a","b">>
CAN == <<"c","a","n">>
CAP == <<"c","a","p">>
CAD == <<"c","a","d">>
CAM == <<"c","a","m">>

\* a wordnet.db with more than eight lemmas under one prefix, a lemma in
\* several rows
SuggestStore ==
  [k \in 1..11 |->
     Row(<< CAT, CAR, CATS, CARE, CAB, CAT, CAN, CAP, CAD, CAM, COT >>[k],
         "n", "s", "feline", NULL)]

\* the rows the row-enumerating model builds its stores from
PartsOfSpeech == {"n", "v"}
DefinitionTexts == {"feline", "to flog"}
ExampleTexts == {NULL, "the cat sat", "a cat purrs"}

RowDomain ==
  { Row(CAT, p, "s", d, e) :
      p \in PartsOfSpeech, d \in DefinitionTexts, e \in ExampleTexts }
  \cup { Row(COT, "n", "s3", "a small bed", NULL) }

\* every table of at most n such rows
Stores(n) == UNION { [1..k -> RowDomain] : k \in 0..n }

\* SELECT ... FROM definitions WHERE lemma=? COLLATE NOCASE
ExactLookup(rows, word) ==
  SelectSeq(rows, LAMBDA r : LowerSeq(r.lemma) = LowerSeq(word))

\* ------------------------------------------ show_suggestions: the query
\* the characters of the lemmas, in the order of their codes
Alphabet ==
  << " ", "%", "C", "_", "a", "b", "c", "d", "e", "m", "n", "o", "p", "r",
     "s", "t" >>

Code(c) == CHOOSE k \in 1..Len(Alphabet) : Alphabet[k] = c

\* a sorts before b in the BINARY collation of idx_lemma
RECURSIVE Before(_, _)
Before(a, b) ==
  IF a = <<>> THEN b # <<>>
  ELSE IF b = <<>> THEN FALSE
  ELSE IF Head(a) = Head(b) THEN Before(Tail(a), Tail(b))
  ELSE Code(Head(a)) < Code(Head(b))

RECURSIVE SortedSeq(_)
SortedSeq(S) ==
  IF S = {} THEN <<>>
  ELSE LET m == CHOOSE x \in S : \A y \in S \ {x} : Before(x, y)
       IN <<m>> \o SortedSeq(S \ {m})

\* the values of seq, each at its first position
RECURSIVE Distinct(_)
Distinct(seq) ==
  IF seq = <<>> THEN <<>>
  ELSE LET prev == Distinct(SubSeq(seq, 1, Len(seq) - 1))
       IN IF seq[Len(seq)] \in Range(prev) THEN prev
          ELSE Append(prev, seq[Len(seq)])

\* text LIKE pattern: % is any run of characters, _ any one character, and
\* letters match without regard to case
RECURSIVE Like(_, _)
Like(pattern, text) ==
  IF pattern = <<>> THEN text = <<>>
  ELSE IF Head(pattern) = "%"
  THEN Like(Tail(pattern), text)
       \/ (text # <<>> /\ Like(pattern, Tail(text)))
  ELSE /\ text # <<>>
       /\ (Head(pattern) = "_"
           \/ LowerChar(Head(pattern)) = LowerChar(Head(text)))
       /\ Like(Tail(pattern), Tail(text))

\* SELECT DISTINCT lemma: the table has no ORDER BY, so the rows come in the
\* order of the scan the planner picks, rowid order or the order of idx_lemma
DistinctLemmas(rows, plan) ==
  LET lemmas == [k \in 1..Len(rows) |-> rows[k].lemma]
  IN IF plan = "index" THEN SortedSeq(Range(lemmas)) ELSE Distinct(lemmas)

\* every row kept, the LIMIT left out
Unlimited(seq, n) == seq

\* LIMIT n
Limit(seq, n) == SubSeq(seq, 1, IF Len(seq) < n THEN Len(seq) ELSE n)

\* SELECT DISTINCT lemma FROM definitions WHERE lemma LIKE ? COLLATE NOCASE
\* LIMIT 8, with (word_fragment + '%',)
PrefixSearch(rows, word_fragment, plan) ==
  Limit(DistinctLemmas(
          SelectSeq(rows,
                    LAMBDA r : Like(Append(word_fragment, "%"), r.lemma)),
          plan),
        SuggestionLimit)

\* ------------------------------------------- get_definition: offline entry
\* keys of the dict `meanings`, in insertion (first-seen) order
RECURSIVE PosOrder(_)
PosOrder(rows) ==
  IF rows = <<>> THEN <<>>
  ELSE LET prev == PosOrder(SubSeq(rows, 1, Len(rows) - 1))
           pos  == rows[Len(rows)].part_of_speech
       IN IF pos \in Range(prev) THEN prev ELSE Append(prev, pos)

\* def_obj of one row: the example key is set only for a truthy example
DefObj(row) ==
  [definition |-> row.definition,
   example |-> IF Truthy(row.example) THEN row.example ELSE NULL]

\* meanings_list
MeaningsList(rows) ==
  LET order == PosOrder(rows)
      of(pos) == SelectSeq(rows, LAMBDA r : r.part_of_speech = pos)
  IN [i \in 1..Len(order) |->
        [partOfSpeech |-> order[i],
         definitions |-> [j \in 1..Len(of(order[i])) |->
                            DefObj(of(order[i])[j])]]]

\* data = {"word": word, "meanings": meanings_list}
OfflineData(word, rows) ==
  [word |-> word, phonetic |-> NULL, meanings |-> MeaningsList(rows)]

\* ------------------------------------------------ show_results: rendering
\* the examples of a repeated definition appended without the membership test
RECURSIVE GroupDefsKeepingRepeats(_)
GroupDefsKeepingRepeats(definitions) ==
  IF definitions = <<>> THEN <<>>
  ELSE LET prev == GroupDefsKeepingRepeats(
                     SubSeq(definitions, 1, Len(definitions) - 1))
           defn == definitions[Len(definitions)]
           hit  == {k \in 1..Len(prev) : prev[k].definition = defn.definition}
       IN IF hit # {}
          THEN LET k == CHOOSE k \in hit : TRUE
               IN IF Truthy(defn.example)
                  THEN [prev EXCEPT ![k].examples = Append(@, defn.example)]
                  ELSE prev
          ELSE Append(prev,
                 [definition |-> defn.definition,
                  examples |-> IF Truthy(defn.example)
                               THEN <<defn.example>> ELSE <<>>])

\* grouped_defs: definition text -> examples, in insertion order
RECURSIVE GroupDefs(_)
GroupDefs(definitions) ==
  IF definitions = <<>> THEN <<>>
  ELSE LET prev == GroupDefs(SubSeq(definitions, 1, Len(definitions) - 1))
           defn == definitions[Len(definitions)]
           hit  == {k \in 1..Len(prev) : prev[k].definition = defn.definition}
       IN IF hit # {}
          THEN LET k == CHOOSE k \in hit : TRUE
               IN IF Truthy(defn.example)
                     /\ defn.example \notin Range(prev[k].examples)
                  THEN [prev EXCEPT ![k].examples = Append(@, defn.example)]
                  ELSE prev
          ELSE Append(prev,
                 [definition |-> defn.definition,
                  examples |-> IF Truthy(defn.example)
                               THEN <<defn.example>> ELSE <<>>])

\* what the result window displays for data
Rendered(data) ==
  [state |-> "shown",
   word |-> Capitalize(data.word),
   phonetic |-> data.phonetic,
   meanings |-> [i \in 1..Len(data.meanings) |->
                   [partOfSpeech |-> data.meanings[i].partOfSpeech,
                    definitions |-> GroupDefs(data.meanings[i].definitions)]]]

\* ------------------------------------------------- the remote dictionary
\* first element of a success array of api.dictionaryapi.dev
RemoteEntry(word) ==
  [word |-> word, phonetic |-> "/fon/",
   meanings |-> << [partOfSpeech |-> "noun",
                    definitions |-> << [definition |-> "remote sense",
                                        example |-> NULL] >>] >>]

\* an array element without a "meanings" key: data.get('meanings', [])
BareEntry(word) == [word |-> word, phonetic |-> NULL, meanings |-> <<>>]

Json(shape, items, title) ==
  [kind |-> "json", shape |-> shape, items |-> items, title |-> title]

\* what requests.get(url, timeout=5) followed by response.json() can give
RemoteResponses(word) ==
  { [kind |-> "transport", shape |-> "none", items |-> <<>>, title |-> NULL],
    [kind |-> "nonjson", shape |-> "none", items |-> <<>>, title |-> NULL],
    Json("list", <<RemoteEntry(word)>>, NULL),
    Json("list", <<BareEntry(word)>>, NULL),
    Json("list", <<>>, NULL),
    Json("dict", <<>>, "No Definitions Found"),
    Json("dict", <<>>, NULL) }

\* ------------------------------------------------------------------ state
VARIABLES
  entry,                      \* text of self.entry
  input_window,               \* "withdrawn" or "shown"
  loading_window,             \* None or a window
  result_window,              \* None or a window with the rendered entry
  error_window,               \* None or a window with the message
  suggestion_popup,           \* None or a window
  suggestion_items,           \* labels of the popup, in order
  selected_suggestion_index,
  last_suggestions,           \* the list show_suggestions rendered last
  suggestion_after_id,        \* 0 (None) or the id of the last timer
  timers,                     \* ids of the after(200, ...) timers pending
  threads,                    \* every Thread fetch_definition has created
  active_fetch_thread,        \* 0 (None) or an index into threads
  after_queue,                \* callbacks registered with root.after(0, ...)
  store,                      \* rows of wordnet.db
  query_plan,                 \* how sqlite scans for the suggestion query
  log,                        \* history: the after-callbacks run so far
  last,                       \* history: how the last handler ended
  history,                    \* NavigationHistory: the words pushed
  returned,                   \* what the last pop() gave back
  wordnet                     \* the synsets wordnet.all_synsets() yields

vars ==
  << entry, input_window, loading_window, result_window, error_window,
     suggestion_popup, suggestion_items, selected_suggestion_index,
     last_suggestions, suggestion_after_id, timers,
     threads, active_fetch_thread, after_queue, store, query_plan, log,
     last, history, returned, wordnet >>

windows == << input_window, loading_window, result_window, error_window >>

\* the debounce timer and the remembered list
suggestion_query == << last_suggestions, suggestion_after_id, timers >>

suggestion_vars ==
  << suggestion_popup, suggestion_items, selected_suggestion_index,
     suggestion_query >>

thread_vars == << threads, active_fetch_thread >>

environment == << store, query_plan, wordnet >>

\* the navigation stack; nothing in app.py or build_database.py reads or
\* writes it
navigation == << history, returned >>

\* pop() on an empty stack
Empty == <<>>

\* what the user can have in the entry after editing it
Texts == { <<" ","C","a","t"," ">> }

Shown == [state |-> "shown"]

Withdrawn(w) == IF w = None THEN None ELSE [w EXCEPT !.state = "withdrawn"]

NoData == [word |-> <<>>, phonetic |-> NULL, meanings |-> <<>>]

NoResponse ==
  [kind |-> "none", shape |-> "none", items |-> <<>>, title |-> NULL]

\* an entry of the history: the main loop ran a callback of a thread
Event(fn, i) == [fn |-> fn, thread |-> i]

\* Thread.is_alive(): started and target not yet returned
IsAlive(i) == threads[i].pc # "done"

AliveThreads == {i \in 1..Len(threads) : IsAlive(i)}

Init ==
  /\ entry = PLACEHOLDER
  /\ input_window = "withdrawn"
  /\ loading_window = None
  /\ result_window = None
  /\ error_window = None
  /\ suggestion_popup = None
  /\ suggestion_items = <<>>
  /\ selected_suggestion_index = -1
  /\ last_suggestions = <<>>
  /\ suggestion_after_id = 0
  /\ timers = {}
  /\ threads = <<>>
  /\ active_fetch_thread = 0
  /\ after_queue = <<>>
  /\ store = MainStore
  /\ query_plan = "index"
  /\ history = <<>>
  /\ returned = Empty
  /\ wordnet = <<>>
  /\ log = <<>>
  /\ last = "other"

\* ------------------------------------------------------- presentation side
\* hide_all_windows followed by the reset of show_input.  The hotkey listener,
\* the "New Search" and "Try Again" buttons and <Return> in the error window
\* all call it; it is taken as one step of the main loop.
ShowInput ==
  /\ input_window' = "shown"
  /\ loading_window' = Withdrawn(loading_window)
  /\ result_window' = Withdrawn(result_window)
  /\ error_window' = Withdrawn(error_window)
  /\ suggestion_popup' = None
  /\ entry' = PLACEHOLDER
  /\ UNCHANGED << suggestion_items, selected_suggestion_index,
                  suggestion_query, thread_vars, after_queue, environment,
                  log >>

show_input ==
  /\ ShowInput
  /\ last' = "other"
  /\ UNCHANGED navigation

\* the user edits the text of the entry (Tk's own key bindings)
KeyPress(text) ==
  /\ input_window = "shown"
  /\ entry # text
  /\ entry' = text
  /\ last' = "other"
  /\ UNCHANGED << windows, suggestion_vars, thread_vars, after_queue,
                  environment, navigation, log >>

hide_input_window ==
  /\ input_window = "shown"
  /\ input_window' = "withdrawn"
  /\ suggestion_popup' = None
  /\ last' = "other"
  /\ UNCHANGED << entry, loading_window, result_window, error_window,
                  suggestion_items, selected_suggestion_index,
                  suggestion_query, thread_vars, after_queue, environment,
                  navigation, log >>

close_result_window ==
  /\ result_window # None
  /\ result_window.state = "shown"
  /\ result_window' = None
  /\ last' = "other"
  /\ UNCHANGED << entry, input_window, loading_window, error_window,
                  suggestion_vars, thread_vars, after_queue, environment,
                  navigation, log >>

close_error_window ==
  /\ error_window # None
  /\ error_window.state = "shown"
  /\ error_window' = None
  /\ last' = "other"
  /\ UNCHANGED << entry, input_window, loading_window, result_window,
                  suggestion_vars, thread_vars, after_queue, environment,
                  navigation, log >>

\* the label of the first item, whatever the index
SelectedLabelFirst(items, index) == items[1]

\* self.suggestion_items[self.selected_suggestion_index][1]['text']
SelectedLabel(items, index) == items[index + 1]

\* select_current_suggestion, bound to <Tab> and reached from on_return
select_current_suggestion ==
  IF suggestion_popup # None /\ selected_suggestion_index >= 0
  THEN /\ entry' = SelectedLabel(suggestion_items, selected_suggestion_index)
       /\ suggestion_popup' = None
       /\ selected_suggestion_index' = -1
       /\ last' = "accepted"
       /\ UNCHANGED << windows, suggestion_items, suggestion_query,
                       thread_vars, after_queue, environment,
                       navigation, log >>
  ELSE /\ last' = "ignored"
       /\ UNCHANGED << entry, windows, suggestion_vars, thread_vars,
                       after_queue, environment, navigation, log >>

\* <Tab> in the entry
on_tab ==
  /\ input_window = "shown"
  /\ select_current_suggestion

\* the guard left out
BusyUnchecked == FALSE

\* the guard testing that a thread was started, not that it is alive, and
\* only while the store is being read
BusyWhileReading ==
  active_fetch_thread # 0 /\ threads[active_fetch_thread].pc = "lookup"

\* "Prevent multiple fetches"
Busy == active_fetch_thread # 0 /\ IsAlive(active_fetch_thread)

NewThread(word) ==
  [word |-> word, pc |-> "lookup", lookup |-> "none", path |-> "none",
   data |-> NoData, response |-> NoResponse, fetches |-> 0]

\* only the placeholder turned away
NothingTypedButPlaceholder(word) == word = PLACEHOLDER

\* word == "Type a word to define..." or not word
NothingTyped(word) == word = PLACEHOLDER \/ word = <<>>

fetch_definition ==
  LET word == Strip(entry) IN
  IF NothingTyped(word)
  THEN /\ last' = "rejected"
       /\ UNCHANGED << entry, windows, suggestion_vars, thread_vars,
                       after_queue, environment, navigation, log >>
  ELSE \* hide_input_window() has destroyed the popup before it is tested
       LET popup == None
           chosen == IF popup # None /\ selected_suggestion_index >= 0
                        /\ selected_suggestion_index < Len(suggestion_items)
                     THEN suggestion_items[selected_suggestion_index + 1]
                     ELSE word
       IN /\ input_window' = "withdrawn"
          /\ suggestion_popup' = None
          /\ IF Busy
             THEN /\ last' = "dropped"
                  /\ UNCHANGED << loading_window, thread_vars >>
             ELSE /\ Len(threads) < MaxThreads
                  /\ loading_window' = Shown
                  /\ threads' = Append(threads, NewThread(chosen))
                  /\ active_fetch_thread' = Len(threads) + 1
                  /\ last' = "started"
          /\ UNCHANGED << entry, result_window, error_window,
                          suggestion_items, selected_suggestion_index,
                          suggestion_query, after_queue, environment,
                          navigation, log >>

\* the selection never looked at
SuggestionSelectedNever == FALSE

\* self.suggestion_popup and self.selected_suggestion_index >= 0
SuggestionSelected ==
  suggestion_popup # None /\ selected_suggestion_index >= 0

\* <Return> in the entry
on_return ==
  /\ input_window = "shown"
  /\ IF SuggestionSelected
     THEN select_current_suggestion
     ELSE fetch_definition

\* ------------------------------------------------------------ suggestions
\* the pending timer left to fire
AfterCancelSkipped(pending, id) == pending

\* self.entry.after_cancel(id); an id that has fired already cancels nothing
AfterCancel(pending, id) == pending \ {id}

\* the id entry.after returns: Tk never hands out the id of a pending timer
NewTimerId(pending) ==
  CHOOSE k \in 1..(Cardinality(pending) + 1) :
    k \notin pending /\ \A j \in 1..(k - 1) : j \in pending

\* a single character enough for a query
NeedsQueryFromOne(word) == Len(word) >= 1 /\ word # PLACEHOLDER

\* len(word) >= 2 and word != "Type a word to define..."
NeedsQuery(word) == Len(word) >= 2 /\ word # PLACEHOLDER

\* <KeyRelease> in the entry, for a key on_key_release does not filter out
on_key_release ==
  /\ input_window = "shown"
  /\ LET word == Strip(entry)
         pending == IF suggestion_after_id # 0
                    THEN AfterCancel(timers, suggestion_after_id)
                    ELSE timers
     IN IF NeedsQuery(word)
        THEN /\ suggestion_after_id' = NewTimerId(pending)
             /\ timers' = pending \cup {NewTimerId(pending)}
             /\ last' = IF pending # timers THEN "rescheduled"
                        ELSE "scheduled"
             /\ UNCHANGED suggestion_popup
        ELSE /\ timers' = pending
             /\ suggestion_popup' = None
             /\ last' = "cleared"
             /\ UNCHANGED suggestion_after_id
  /\ UNCHANGED << entry, windows, suggestion_items,
                  selected_suggestion_index, last_suggestions, thread_vars,
                  after_queue, environment, navigation, log >>

\* past the last item back to the first
MoveDownWrapping(index, n) == (index + 1) % n

\* min(self.selected_suggestion_index + 1, len(self.suggestion_items) - 1)
MoveDown(index, n) == IF index + 1 < n - 1 THEN index + 1 ELSE n - 1

\* <Down> in the entry
navigate_suggestions_down ==
  /\ input_window = "shown"
  /\ IF suggestion_popup # None /\ suggestion_items # <<>>
     THEN selected_suggestion_index' =
            MoveDown(selected_suggestion_index, Len(suggestion_items))
     ELSE UNCHANGED selected_suggestion_index
  /\ last' = "down"
  /\ UNCHANGED << entry, windows, suggestion_popup, suggestion_items,
                  suggestion_query, thread_vars, after_queue, environment,
                  navigation, log >>

\* max(self.selected_suggestion_index - 1, -1)
MoveUp(index) == IF index - 1 > -1 THEN index - 1 ELSE -1

\* <Up> in the entry
navigate_suggestions_up ==
  /\ input_window = "shown"
  /\ IF suggestion_popup # None /\ suggestion_items # <<>>
     THEN selected_suggestion_index' = MoveUp(selected_suggestion_index)
     ELSE UNCHANGED selected_suggestion_index
  /\ last' = "up"
  /\ UNCHANGED << entry, windows, suggestion_popup, suggestion_items,
                  suggestion_query, thread_vars, after_queue, environment,
                  navigation, log >>

\* <Button-1> on item k of the popup
on_click(k) ==
  /\ suggestion_popup # None
  /\ k \in 1..Len(suggestion_items)
  /\ entry' = suggestion_items[k]
  /\ suggestion_popup' = None
  /\ last' = "other"
  /\ UNCHANGED << windows, suggestion_items, selected_suggestion_index,
                  suggestion_query, thread_vars, after_queue, environment,
                  navigation, log >>

\* len(word_fragment) < 2 or word_fragment == "Type a word to define..."
TooShort(word_fragment) ==
  Len(word_fragment) < 2 \/ word_fragment = PLACEHOLDER

\* a read that raised leaving the list rendered last in place
FetchSuggestionsKeptOnError(lookup, word_fragment) ==
  IF lookup = "error" THEN last_suggestions
  ELSE PrefixSearch(store, word_fragment, query_plan)

\* suggestions = [row[0] for row in c.fetchall()], and [] in the handler of
\* "except Exception"
FetchSuggestions(lookup, word_fragment) ==
  IF lookup = "error" THEN <<>>
  ELSE PrefixSearch(store, word_fragment, query_plan)

\* the timer id fires: show_suggestions.  Whether wordnet.db is there and
\* whether reading it raises is decided at the time of the call.
show_suggestions(id) ==
  /\ id \in timers
  /\ timers' = timers \ {id}
  /\ LET word_fragment == Strip(entry) IN
     IF TooShort(word_fragment)
     THEN /\ suggestion_popup' = None
          /\ last_suggestions' = <<>>
          /\ last' = "too_short"
          /\ UNCHANGED << suggestion_items, selected_suggestion_index >>
     ELSE \E lookup \in {"unavailable", "error", "read"} :
       IF lookup = "unavailable"
       THEN /\ last' = "no_database"
            /\ UNCHANGED << suggestion_popup, suggestion_items,
                            selected_suggestion_index, last_suggestions >>
       ELSE LET suggestions == FetchSuggestions(lookup, word_fragment)
            IN /\ last' = IF lookup = "error" THEN "query_failed"
                          ELSE "queried"
               /\ IF suggestions = <<>>
                  THEN /\ suggestion_popup' = None
                       /\ last_suggestions' = <<>>
                       /\ UNCHANGED << suggestion_items,
                                       selected_suggestion_index >>
                  ELSE IF last_suggestions = suggestions
                          /\ suggestion_popup # None
                  THEN UNCHANGED << suggestion_popup, suggestion_items,
                                    selected_suggestion_index,
                                    last_suggestions >>
                  ELSE /\ last_suggestions' = suggestions
                       /\ suggestion_popup' = Shown
                       /\ selected_suggestion_index' = -1
                       /\ suggestion_items' = suggestions
  /\ UNCHANGED << entry, windows, suggestion_after_id, thread_vars,
                  after_queue, environment, navigation, log >>

\* ------------------------------------------------ get_definition (worker)
\* "if rows:"
HasRowsInverted(rows) == rows = <<>>

HasRows(rows) == rows # <<>>

\* a read that raised handing over the rows all the same
FetchAllDespiteError(lookup, rows) ==
  IF lookup # "unavailable" THEN rows ELSE <<>>

\* a later read going on where the cursor of the first one stopped
FetchAllAfterFirst(lookup, rows) ==
  IF lookup # "read" THEN <<>>
  ELSE IF log = <<>> \/ rows = <<>> THEN rows ELSE Tail(rows)

\* rows = c.fetchall(): reached only when the file exists and neither
\* connect nor execute raised; "except Exception" goes on to the online block
FetchAll(lookup, rows) == IF lookup = "read" THEN rows ELSE <<>>

\* os.path.exists(), connect, SELECT: the file may be missing and the read
\* may raise; both are decided by the environment at the time of the call
ThreadLookup(i) ==
  /\ threads[i].pc = "lookup"
  /\ \E lookup \in {"unavailable", "error", "read"} :
       LET rows == FetchAll(lookup, ExactLookup(store, threads[i].word)) IN
       IF HasRows(rows)
       THEN threads' = [threads EXCEPT
                          ![i].pc = "post_hide",
                          ![i].path = "offline",
                          ![i].lookup = lookup,
                          ![i].data = OfflineData(threads[i].word, rows)]
       ELSE threads' = [threads EXCEPT
                          ![i].pc = "fetch",
                          ![i].lookup = lookup]
  /\ last' = "other"
  /\ UNCHANGED << entry, windows, suggestion_vars, active_fetch_thread,
                  after_queue, environment, navigation, log >>

\* a failed request fetched again instead of being reported
PcAfterFetchRetrying(raised, uncaught) ==
  IF uncaught THEN "done" ELSE IF raised THEN "fetch" ELSE "post_hide"

\* where get_definition continues after the request: an exception that is
\* not caught ends the thread, everything else goes on to root.after
PcAfterFetch(raised, uncaught) == IF uncaught THEN "done" ELSE "post_hide"

\* requests.get(url, timeout=5); data = response.json().  The exception
\* response.json() raises on a body that is not JSON is a RequestException
\* in some releases of requests and a plain ValueError in others.
ThreadFetch(i) ==
  /\ threads[i].pc = "fetch"
  /\ \E response \in RemoteResponses(threads[i].word),
        json_error_is_request_exception \in BOOLEAN :
       LET raised == response.kind = "transport"
                     \/ (response.kind = "nonjson"
                         /\ json_error_is_request_exception)
           uncaught == response.kind = "nonjson"
                       /\ ~json_error_is_request_exception
       IN threads' = [threads EXCEPT
            ![i].fetches = @ + 1,
            ![i].response = IF uncaught THEN NoResponse ELSE response,
            ![i].path = IF raised THEN "except"
                        ELSE IF uncaught THEN "none" ELSE "online",
            ![i].lookup = IF uncaught THEN "none" ELSE @,
            ![i].pc = PcAfterFetch(raised, uncaught)]
  /\ last' = "other"
  /\ UNCHANGED << entry, windows, suggestion_vars, active_fetch_thread,
                  after_queue, environment, navigation, log >>

\* a callback with its arguments; lookup and response record where the
\* arguments came from
Callback(fn, i, data, message) ==
  [fn |-> fn, thread |-> i, data |-> data, message |-> message,
   lookup |-> threads[i].lookup, response |-> threads[i].response]

\* self.root.after(0, self.hide_loading_window)
ThreadPostHide(i) ==
  /\ threads[i].pc = "post_hide"
  /\ after_queue' =
       Append(after_queue, Callback("hide_loading_window", i, NoData, NULL))
  /\ threads' = [threads EXCEPT ![i].pc = "post_show"]
  /\ last' = "other"
  /\ UNCHANGED << entry, windows, suggestion_vars, active_fetch_thread,
                  environment, navigation, log >>

\* isinstance(data, list) and data
IsEntryList(data) == data.shape = "list" /\ data.items # <<>>

\* the title branch left out
HasTitleIgnored(data) == FALSE

\* isinstance(data, dict) and "title" in data
HasTitle(data) == data.shape = "dict" /\ data.title # NULL

\* the second root.after(0, lambda: ...) of the branch taken
TerminalCallback(i) ==
  LET t == threads[i] IN
  IF t.path = "offline"
  THEN Callback("show_results", i, t.data, NULL)
  ELSE IF t.path = "except"
  THEN Callback("show_error", i, NoData, "Network error occurred")
  ELSE IF IsEntryList(t.response)
  THEN Callback("show_results", i, t.response.items[1], NULL)
  ELSE IF HasTitle(t.response)
  THEN Callback("show_error", i, NoData, t.response.title)
  ELSE Callback("show_error", i, NoData, "No definition found")

\* the target returns: its locals are gone, the Thread object stays
Returned(t) ==
  [t EXCEPT !.pc = "done", !.lookup = "none", !.path = "none",
            !.data = NoData, !.response = NoResponse]

ThreadPostShow(i) ==
  /\ threads[i].pc = "post_show"
  /\ after_queue' = Append(after_queue, TerminalCallback(i))
  /\ threads' = [threads EXCEPT ![i] = Returned(@)]
  /\ last' = "other"
  /\ UNCHANGED << entry, windows, suggestion_vars, active_fetch_thread,
                  environment, navigation, log >>

\* ------------------------------------------- the main loop runs a callback

RunAfter ==
  /\ after_queue # <<>>
  /\ LET cb == Head(after_queue) IN
       /\ after_queue' = Tail(after_queue)
       /\ CASE cb.fn = "hide_loading_window" ->
                 /\ loading_window' = None
                 /\ log' = Append(log, Event(cb.fn, cb.thread))
                 /\ UNCHANGED << result_window, error_window >>
            [] cb.fn = "show_results" ->
                 /\ result_window' = Rendered(cb.data)
                 /\ log' = Append(log, Event(cb.fn, cb.thread))
                 /\ UNCHANGED << loading_window, error_window >>
            [] cb.fn = "show_error" ->
                 /\ error_window' = [state |-> "shown", message |-> cb.message]
                 /\ log' = Append(log, Event(cb.fn, cb.thread))
                 /\ UNCHANGED << loading_window, result_window >>
       /\ last' = "other"
  /\ UNCHANGED << entry, input_window, suggestion_vars, thread_vars,
                  environment, navigation >>

Next ==
  \/ show_input
  \/ \E text \in Texts : KeyPress(text)
  \/ hide_input_window
  \/ on_return
  \/ close_result_window
  \/ close_error_window
  \/ \E i \in 1..Len(threads) : ThreadLookup(i)
  \/ \E i \in 1..Len(threads) : ThreadFetch(i)
  \/ \E i \in 1..Len(threads) : ThreadPostHide(i)
  \/ \E i \in 1..Len(threads) : ThreadPostShow(i)
  \/ RunAfter

Spec == Init /\ [][Next]_vars

\* ------------------------------------------- one resolution, any store
\* the input window is open and a word has been typed; the table holds any
\* rows
InitRows ==
  /\ entry \in Texts
  /\ input_window = "shown"
  /\ loading_window = None
  /\ result_window = None
  /\ error_window = None
  /\ suggestion_popup = None
  /\ suggestion_items = <<>>
  /\ selected_suggestion_index = -1
  /\ last_suggestions = <<>>
  /\ suggestion_after_id = 0
  /\ timers = {}
  /\ threads = <<>>
  /\ active_fetch_thread = 0
  /\ after_queue = <<>>
  /\ store \in Stores(MaxRows)
  /\ query_plan = "index"
  /\ history = <<>>
  /\ returned = Empty
  /\ wordnet = <<>>
  /\ log = <<>>
  /\ last = "other"

NextRows ==
  \/ on_return
  \/ \E i \in 1..Len(threads) : ThreadLookup(i)
  \/ \E i \in 1..Len(threads) : ThreadFetch(i)
  \/ \E i \in 1..Len(threads) : ThreadPostHide(i)
  \/ \E i \in 1..Len(threads) : ThreadPostShow(i)
  \/ RunAfter

SpecRows == InitRows /\ [][NextRows]_vars

\* ------------------------------------- the input window and its popup
\* what the user types into the entry in this model
Fragments ==
  { <<" ">>, <<"c">>, <<" ","C","a">>, <<"c","o","d">> }

InitSuggest ==
  /\ entry = PLACEHOLDER
  /\ input_window = "withdrawn"
  /\ loading_window = None
  /\ result_window = None
  /\ error_window = None
  /\ suggestion_popup = None
  /\ suggestion_items = <<>>
  /\ selected_suggestion_index = -1
  /\ last_suggestions = <<>>
  /\ suggestion_after_id = 0
  /\ timers = {}
  /\ threads = <<>>
  /\ active_fetch_thread = 0
  /\ after_queue = <<>>
  /\ store = SuggestStore
  /\ query_plan \in {"table", "index"}
  /\ history = <<>>
  /\ returned = Empty
  /\ wordnet = <<>>
  /\ log = <<>>
  /\ last = "other"

NextSuggest ==
  \/ show_input
  \/ \E text \in Fragments : KeyPress(text)
  \/ on_key_release
  \/ \E id \in timers : show_suggestions(id)
  \/ navigate_suggestions_down
  \/ navigate_suggestions_up
  \/ on_tab
  \/ \E k \in 1..Len(suggestion_items) : on_click(k)
  \/ on_return
  \/ hide_input_window

SpecSuggest == InitSuggest /\ [][NextSuggest]_vars

\* --------------------------------------- one word in several spellings
\* the spellings of one word the user types in this model
CaseTexts ==
  { <<"c","a","t">>, <<" ","c","A","T"," ">>, <<"C","a","t">>,
    <<"C","A","T"," ">> }

\* the hotkey has opened the input window
InitCase ==
  /\ entry = PLACEHOLDER
  /\ input_window = "shown"
  /\ loading_window = None
  /\ result_window = None
  /\ error_window = None
  /\ suggestion_popup = None
  /\ suggestion_items = <<>>
  /\ selected_suggestion_index = -1
  /\ last_suggestions = <<>>
  /\ suggestion_after_id = 0
  /\ timers = {}
  /\ threads = <<>>
  /\ active_fetch_thread = 0
  /\ after_queue = <<>>
  /\ store = MainStore
  /\ query_plan = "index"
  /\ history = <<>>
  /\ returned = Empty
  /\ wordnet = <<>>
  /\ log = <<>>
  /\ last = "other"

NextCase ==
  \/ \E text \in CaseTexts : KeyPress(text)
  \/ on_return
  \/ \E i \in 1..Len(threads) : ThreadLookup(i)
  \/ \E i \in 1..Len(threads) : ThreadFetch(i)
  \/ \E i \in 1..Len(threads) : ThreadPostHide(i)
  \/ \E i \in 1..Len(threads) : ThreadPostShow(i)
  \/ RunAfter

SpecCase == InitCase /\ [][NextCase]_vars

\* ------------------------------------------------- NavigationHistory
\* most words the stack holds in this model
MaxHistory == 3

StackWords == {CAT, COT, CAR}

\* push(word) appends
Pushed(h, word) == Append(h, word)

\* pop() handing out the oldest word
PoppedOldest(h) ==
  IF h = <<>> THEN [word |-> Empty, rest |-> <<>>]
  ELSE [word |-> h[1], rest |-> Tail(h)]

\* pop() removes and returns the most recent word, or empty
Popped(h) ==
  IF h = <<>> THEN [word |-> Empty, rest |-> <<>>]
  ELSE [word |-> h[Len(h)], rest |-> SubSeq(h, 1, Len(h) - 1)]

\* clear() empties the stack
Cleared(h) == <<>>

\* everything but the stack
program ==
  << entry, windows, suggestion_vars, thread_vars, after_queue, environment,
     log >>

push(word) ==
  /\ Len(history) < MaxHistory
  /\ history' = Pushed(history, word)
  /\ last' = "push"
  /\ UNCHANGED << returned, program >>

pop ==
  /\ history' = Popped(history).rest
  /\ returned' = Popped(history).word
  /\ last' = "pop"
  /\ UNCHANGED program

clear ==
  /\ history' = Cleared(history)
  /\ last' = "clear"
  /\ UNCHANGED << returned, program >>

NextStack ==
  \/ \E word \in StackWords : push(word)
  \/ pop
  \/ clear

SpecStack == Init /\ [][NextStack]_vars

\* ------------------------------------- the protocol driving the stack
\* threads of one chain in this model
ChainThreads == MaxThreads + 1

\* words that can be clicked in a rendered definition
ClickWords == {COT}

\* resolve(word) with no resolution in flight: the loading window is shown
\* and a worker started
Resolve(word) ==
  /\ loading_window' = Shown
  /\ threads' = Append(threads, NewThread(word))
  /\ active_fetch_thread' = Len(threads) + 1

\* a word of the rendered definition is clicked while no resolution is in
\* flight: the word displayed is pushed, then the clicked word resolved
word_click(word) ==
  /\ result_window # None
  /\ result_window.state = "shown"
  /\ Len(history) < MaxHistory
  /\ Len(threads) < ChainThreads
  /\ ~Busy
  /\ history' = Pushed(history, result_window.word)
  /\ Resolve(word)
  /\ last' = "word_click"
  /\ UNCHANGED << entry, input_window, result_window, error_window,
                  suggestion_vars, after_queue, environment, log, returned >>

\* "go back": pops and resolves the popped word; the word being left is
\* not pushed
navigateBack ==
  /\ result_window # None
  /\ result_window.state = "shown"
  /\ Len(threads) < ChainThreads
  /\ ~Busy
  /\ history' = Popped(history).rest
  /\ returned' = Popped(history).word
  /\ IF Popped(history).word = Empty
     THEN UNCHANGED << loading_window, thread_vars >>
     ELSE Resolve(Popped(history).word)
  /\ last' = "back"
  /\ UNCHANGED << entry, input_window, result_window, error_window,
                  suggestion_vars, after_queue, environment, log >>

\* a retry that starts the chain afresh
retry_clearing ==
  /\ error_window # None
  /\ error_window.state = "shown"
  /\ ShowInput
  /\ history' = Cleared(history)
  /\ last' = "retry"
  /\ UNCHANGED returned

\* "Try Again" after a Failed state: command=self.show_input, the stack kept
retry ==
  /\ error_window # None
  /\ error_window.state = "shown"
  /\ ShowInput
  /\ last' = "retry"
  /\ UNCHANGED navigation

\* "New Search" in a result or error window: a brand-new top-level search,
\* the input window opened and the stack cleared
new_search ==
  /\ \/ result_window # None /\ result_window.state = "shown"
     \/ error_window # None /\ error_window.state = "shown"
  /\ ShowInput
  /\ history' = Cleared(history)
  /\ last' = "new_search"
  /\ UNCHANGED returned

NextHistory ==
  \/ \E i \in 1..Len(threads) : ThreadLookup(i)
  \/ \E i \in 1..Len(threads) : ThreadFetch(i)
  \/ \E i \in 1..Len(threads) : ThreadPostHide(i)
  \/ \E i \in 1..Len(threads) : ThreadPostShow(i)
  \/ RunAfter
  \/ \E word \in ClickWords : word_click(word)
  \/ navigateBack
  \/ retry
  \/ new_search

\* "Cat" has been resolved from the store and its entry is on screen
InitHistory ==
  /\ entry \in Texts
  /\ input_window = "withdrawn"
  /\ loading_window = None
  /\ result_window =
       Rendered(OfflineData(Strip(entry), ExactLookup(MainStore, Strip(entry))))
  /\ error_window = None
  /\ suggestion_popup = None
  /\ suggestion_items = <<>>
  /\ selected_suggestion_index = -1
  /\ last_suggestions = <<>>
  /\ suggestion_after_id = 0
  /\ timers = {}
  /\ threads = << Returned(NewThread(Strip(entry))) >>
  /\ active_fetch_thread = 1
  /\ after_queue = <<>>
  /\ store = MainStore
  /\ query_plan = "index"
  /\ history = <<>>
  /\ returned = Empty
  /\ wordnet = <<>>
  /\ log = << Event("hide_loading_window", 1), Event("show_results", 1) >>
  /\ last = "other"

SpecHistory == InitHistory /\ [][NextHistory]_vars

\* ------------------------------------------- build_database.py and the app
\* most synsets of a corpus, and most runs of the population loop
MaxSynsets == 2
MaxPopulations == 2

\* len(lemma) > 50
MaxLemmaLength == 50

LongLemma == [i \in 1..MaxLemmaLength + 1 |-> "a"]
C_T == <<"c","_","t">>

\* synset.examples()
ExampleLists ==
  { <<>>, <<"the cat sat">>, <<"a cat purrs">>,
    <<"the cat sat", "a cat purrs", "the cat sat">> }

\* synset.lemma_names()
LemmaLists == { <<CAT>>, <<LongLemma, C_T>> }

\* str(synset), synset.pos(), synset.definition(): two synsets share part of
\* speech and gloss
Senses ==
  { [name |-> "s1", pos |-> "n", definition |-> "feline"],
    [name |-> "s2", pos |-> "v", definition |-> "to flog"],
    [name |-> "s3", pos |-> "n", definition |-> "feline"] }

Synsets ==
  { [name |-> y.name, pos |-> y.pos, definition |-> y.definition,
     examples |-> e, lemma_names |-> l] :
      y \in Senses, e \in ExampleLists, l \in LemmaLists }

\* list(wordnet.all_synsets()): every synset once
Corpora(n) ==
  { c \in UNION { [1..k -> Synsets] : k \in 0..n } :
      \A a, b \in 1..Len(c) : a # b => c[a].name # c[b].name }

RECURSIVE Flatten(_)
Flatten(seqs) ==
  IF seqs = <<>> THEN <<>> ELSE Head(seqs) \o Flatten(Tail(seqs))

\* not (len(lemma) > 50 or ' ' in lemma)
Kept(lemma) == ~(Len(lemma) > MaxLemmaLength \/ " " \in Range(lemma))

\* lemma.replace('_', ' ')
Replace(lemma) ==
  [i \in 1..Len(lemma) |-> IF lemma[i] = "_" THEN " " ELSE lemma[i]]

\* every example written, none left out for an empty list
ExamplesOnly(examples) == examples

\* examples or [None]
ExamplesOrNone(examples) == IF examples = <<>> THEN <<NULL>> ELSE examples

\* the INSERTs of one synset, in order
SynsetRows(synset) ==
  LET lemmas == SelectSeq(synset.lemma_names, Kept)
      examples == ExamplesOrNone(synset.examples)
  IN Flatten([i \in 1..Len(lemmas) |->
                [j \in 1..Len(examples) |->
                   Row(Replace(lemmas[i]), synset.pos, synset.name,
                       synset.definition, examples[j])]])

\* the INSERTs of the population loop
PopulatedRows(synsets) ==
  Flatten([i \in 1..Len(synsets) |-> SynsetRows(synsets[i])])

\* setup_database on a table that is empty, or answered "n" at the prompt:
\* the loop runs and is committed at its end
setup_database ==
  /\ Len(store) < MaxPopulations * Len(PopulatedRows(wordnet))
  /\ store' = store \o PopulatedRows(wordnet)
  /\ last' = "populated"
  /\ UNCHANGED << entry, windows, suggestion_vars, thread_vars, after_queue,
                  query_plan, wordnet, navigation, log >>

\* what the user types in this model: a lemma as stored
BuildTexts == { CAT, Replace(C_T) }

\* the table has been created and is empty; the input window is open
InitBuild ==
  /\ entry \in BuildTexts
  /\ input_window = "shown"
  /\ loading_window = None
  /\ result_window = None
  /\ error_window = None
  /\ suggestion_popup = None
  /\ suggestion_items = <<>>
  /\ selected_suggestion_index = -1
  /\ last_suggestions = <<>>
  /\ suggestion_after_id = 0
  /\ timers = {}
  /\ threads = <<>>
  /\ active_fetch_thread = 0
  /\ after_queue = <<>>
  /\ store = <<>>
  /\ query_plan = "index"
  /\ history = <<>>
  /\ returned = Empty
  /\ wordnet \in Corpora(MaxSynsets)
  /\ log = <<>>
  /\ last = "other"

\* the remote service is left out: a resolution the store does not answer
\* stops before its request
NextBuild ==
  \/ setup_database
  \/ on_return
  \/ \E i \in 1..Len(threads) : ThreadLookup(i)
  \/ \E i \in 1..Len(threads) : ThreadPostHide(i)
  \/ \E i \in 1..Len(threads) : ThreadPostShow(i)
  \/ RunAfter

SpecBuild == InitBuild /\ [][NextBuild]_vars

\* ------------------------------------------------------------ properties
Terminal(fn) == fn \in {"show_results", "show_error"}

\* the step in which the main loop runs the callback at the head of the queue
Delivers == after_queue # <<>> /\ after_queue' = Tail(after_queue)

\* C1: in every reachable state at most one thread running get_definition
\* is alive, whatever the order of submits, hotkey re-openings and worker
\* steps.
C1_AtMostOneWorker == Cardinality(AliveThreads) <= 1

\* a submit arrived while the worker was alive and the worker is still the
\* only one
C1_Witness ==
  /\ last = "dropped"
  /\ Cardinality(AliveThreads) = 1
  /\ loading_window # None

\* C2: a submit made while a worker is alive is dropped: it adds no thread,
\* leaves the running thread, the callback queue, the deliveries and the
\* loading window as they were; and a thread is only ever created by a
\* submit that was accepted while no worker was alive, so a dropped word is
\* never resolved later on its own.
C2_DroppedSubmitIsNoOp ==
  [][ /\ (last' \in {"dropped", "started"} /\ AliveThreads # {}) =>
           /\ last' = "dropped"
           /\ UNCHANGED << threads, active_fetch_thread, after_queue, log,
                           loading_window >>
      /\ (threads' # threads /\ Len(threads') # Len(threads)) =>
           /\ last' = "started"
           /\ AliveThreads = {}
           /\ Len(threads') = Len(threads) + 1
           /\ SubSeq(threads', 1, Len(threads)) = threads ]_vars

\* a submit was dropped while the first resolution was past its store read,
\* and there is still one thread only
C2_Witness ==
  /\ last = "dropped"
  /\ Len(threads) = 1
  /\ threads[1].pc \in {"fetch", "post_hide", "post_show"}

\* the callbacks of thread i still waiting in the queue
Pending(i) == {k \in 1..Len(after_queue) : after_queue[k].thread = i}

\* the terminal states of thread i the main loop has shown
Delivered(i) ==
  {k \in 1..Len(log) : log[k].thread = i /\ Terminal(log[k].fn)}

\* thread i has returned and nothing of it is left to run
Over(i) == threads[i].pc = "done" /\ Pending(i) = {}

\* C3: every resolution that started a worker ends with exactly one terminal
\* state shown (one result or one error), whatever the store and the remote
\* service answer: once the thread is over, one terminal callback of it has
\* run.
C3_ExactlyOneTerminalState ==
  \A i \in 1..Len(threads) :
    /\ Cardinality(Delivered(i)) <= 1
    /\ Over(i) => Cardinality(Delivered(i)) = 1

\* the rows of the query a callback's thread made
RowsOf(cb) == ExactLookup(store, threads[cb.thread].word)

\* the store was there, was read, and had rows for the word
FromRows(cb) == cb.lookup = "read" /\ RowsOf(cb) # <<>>

\* the store was missing, or was read and had no row for the word
StoreMissed(cb) ==
  cb.lookup = "unavailable" \/ (cb.lookup = "read" /\ RowsOf(cb) = <<>>)

\* C4: when the store is available and the lookup returns rows, the
\* resolution makes no remote request and its terminal state is a result
\* window showing the entry built from exactly those rows.
C4_RowsResolveOfflineOnly ==
  /\ [](\A i \in 1..Len(threads) :
          (threads[i].lookup = "read"
             /\ ExactLookup(store, threads[i].word) # <<>>)
          => threads[i].fetches = 0 /\ threads[i].pc # "fetch")
  /\ [][Delivers =>
          LET cb == Head(after_queue) IN
          FromRows(cb) =>
            /\ threads[cb.thread].fetches = 0
            /\ cb.fn \in {"hide_loading_window", "show_results"}
            /\ cb.fn = "show_results" =>
                 /\ result_window' =
                      Rendered(OfflineData(threads[cb.thread].word, RowsOf(cb)))
                 /\ error_window' = error_window ]_vars

\* a result built from rows is on screen, no request was made
C4_Witness ==
  /\ store # <<>>
  /\ Len(log) = 2
  /\ log[2].fn = "show_results"
  /\ threads[1].fetches = 0
  /\ result_window # None
  /\ Len(result_window.meanings) = 2

\* C5: when the store is missing, or has no row for the word, the remote
\* service is asked once and its answer decides the terminal state: an entry
\* list shows its first entry; an error object shows its title; any other
\* JSON answer shows "No definition found"; a transport failure shows
\* "Network error occurred".  A word the remote does not have (error object,
\* empty list) therefore never ends in a result nor in the network message.
C5_RemoteOutcomeMapping ==
  [][Delivers =>
       LET cb == Head(after_queue)
           r  == cb.response
       IN (StoreMissed(cb) /\ Terminal(cb.fn) /\ r.kind # "nonjson") =>
            /\ threads[cb.thread].fetches = 1
            /\ r.kind \in {"json", "transport"}
            /\ (r.kind = "json" /\ r.shape = "list" /\ r.items # <<>>) =>
                 /\ cb.fn = "show_results"
                 /\ result_window' = Rendered(r.items[1])
            /\ (r.kind = "json" /\ r.shape = "dict" /\ r.title # NULL) =>
                 /\ cb.fn = "show_error"
                 /\ error_window' = [state |-> "shown", message |-> r.title]
            /\ (r.kind = "json" /\ ~(r.shape = "list" /\ r.items # <<>>)
                  /\ ~(r.shape = "dict" /\ r.title # NULL)) =>
                 /\ cb.fn = "show_error"
                 /\ error_window' =
                      [state |-> "shown", message |-> "No definition found"]
            /\ r.kind = "transport" =>
                 /\ cb.fn = "show_error"
                 /\ error_window' =
                      [state |-> "shown", message |-> "Network error occurred"]
     ]_vars

\* the store had rows, none of them for the word; the remote did not have
\* the word either and its title is on screen
C5_Witness ==
  /\ store # <<>>
  /\ Len(threads) = 1
  /\ ExactLookup(store, threads[1].word) = <<>>
  /\ Len(log) = 2
  /\ log[2].fn = "show_error"
  /\ error_window = [state |-> "shown", message |-> "No Definitions Found"]
  /\ threads[1].fetches = 1
  /\ result_window = None

NoRepeats(seq) ==
  \A a, b \in 1..Len(seq) : seq[a] = seq[b] => a = b

Least(S) == CHOOSE x \in S : \A y \in S : x <= y

\* C6: for a word with rows in the store the resolution shows a result whose
\* meanings are the parts of speech of the rows, each once, in the order of
\* their first row; in a meaning each definition text of that part of speech
\* occurs once, in the order of its first row; and the examples of a
\* definition are the non-NULL examples of its rows, each once, in the order
\* of their first row.
C6_EntryGroupsAndMergesRows ==
  [][Delivers =>
       LET cb   == Head(after_queue)
           rows == RowsOf(cb)
           w    == result_window'
       IN (FromRows(cb) /\ Terminal(cb.fn)) =>
          /\ cb.fn = "show_results"
          /\ w.state = "shown"
          /\ LET pos == [i \in 1..Len(w.meanings) |->
                          w.meanings[i].partOfSpeech]
                 ofPos(p) ==
                   {k \in 1..Len(rows) : rows[k].part_of_speech = p}
             IN /\ NoRepeats(pos)
                /\ Range(pos) = {rows[k].part_of_speech : k \in 1..Len(rows)}
                /\ \A a, b \in 1..Len(pos) :
                     a < b => Least(ofPos(pos[a])) < Least(ofPos(pos[b]))
                /\ \A i \in 1..Len(pos) :
                     LET defs == w.meanings[i].definitions
                         text == [j \in 1..Len(defs) |-> defs[j].definition]
                         ofDef(d) ==
                           {k \in ofPos(pos[i]) : rows[k].definition = d}
                     IN /\ NoRepeats(text)
                        /\ Range(text) =
                             {rows[k].definition : k \in ofPos(pos[i])}
                        /\ \A a, b \in 1..Len(text) :
                             a < b =>
                               Least(ofDef(text[a])) < Least(ofDef(text[b]))
                        /\ \A j \in 1..Len(defs) :
                             LET ex == defs[j].examples
                                 ofEx(e) == {k \in ofDef(text[j]) :
                                               rows[k].example = e}
                             IN /\ NoRepeats(ex)
                                /\ Range(ex) =
                                     {rows[k].example : k \in ofDef(text[j])}
                                     \ {NULL}
                                /\ \A a, b \in 1..Len(ex) :
                                     a < b =>
                                       Least(ofEx(ex[a])) < Least(ofEx(ex[b]))
     ]_vars

\* three rows of one definition, the first example repeated: the entry on
\* screen has one meaning, one definition and the two examples in row order
C6_Witness ==
  /\ Len(store) = 3
  /\ store[1].example = "a cat purrs"
  /\ store[2].example = "the cat sat"
  /\ store[3] = store[1]
  /\ store[2] = [store[1] EXCEPT !.example = "the cat sat"]
  /\ result_window # None
  /\ Len(result_window.meanings) = 1
  /\ Len(result_window.meanings[1].definitions) = 1
  /\ result_window.meanings[1].definitions[1].examples =
       << "a cat purrs", "the cat sat" >>

\* C7: every result window shown, whether built from store rows or taken
\* from the remote answer, shows at least one meaning.
C7_ResolvedHasMeanings ==
  result_window # None => result_window.meanings # <<>>

\* C8: the two delivery steps of a resolution (loading window removed, then
\* result or error shown) run back to back among deliveries, no step of
\* another resolution between them, and resolutions are delivered in the
\* order in which their threads finished, which is the order in which they
\* were started because a thread starts only when all earlier ones are done.
C8_DeliveriesDoNotInterleave ==
  /\ \A k \in 1..Len(log) :
       /\ log[k].fn = "hide_loading_window" /\ k < Len(log) =>
            log[k + 1].thread = log[k].thread /\ Terminal(log[k + 1].fn)
       /\ Terminal(log[k].fn) =>
            /\ k > 1
            /\ log[k - 1] = Event("hide_loading_window", log[k].thread)
  /\ \A a, b \in 1..Len(log) : a < b => log[a].thread <= log[b].thread
  /\ \A i, j \in 1..Len(threads) : i < j => threads[i].pc = "done"
  /\ \A a, b \in 1..Len(after_queue) :
       a < b => after_queue[a].thread <= after_queue[b].thread

\* two resolutions have been delivered, one after the other
C8_Witness ==
  /\ Len(log) = 4
  /\ log[2].thread = 1
  /\ log[3].thread = 2
  /\ Terminal(log[4].fn)

\* the last terminal state thread i delivered was an error, or it died
\* without delivering one
Failed(i) ==
  /\ Over(i)
  /\ \A k \in Delivered(i) : log[k].fn = "show_error"

\* C9: after a resolution has failed (an error was shown, or the remote
\* answer was malformed) the next submit is accepted, starts a worker, and
\* that resolution reaches its own terminal state.
C9_ResolveAfterFailureCompletes ==
  \A i \in 1..Len(threads) :
    (i > 1 /\ Failed(i - 1) /\ Over(i)) => Delivered(i) # {}

\* C10: a resolution makes at most one request; once it has returned it
\* never runs again; and a thread is only ever created by a submit of the
\* user, so nothing is fetched after an error until the user submits again.
C10_NoAutomaticRetry ==
  /\ [](\A i \in 1..Len(threads) :
          /\ threads[i].fetches <= 1
          /\ (Delivered(i) # {} \/ Pending(i) # {}) =>
               threads[i].pc \in {"post_show", "done"})
  /\ [][ /\ \A i \in 1..Len(threads) :
              threads[i].pc = "done" => threads'[i] = threads[i]
         /\ Len(threads') # Len(threads) =>
              last' = "started" /\ input_window = "shown" ]_vars

\* an error was shown for the first resolution after one request, and the
\* user has submitted again
C10_Witness ==
  /\ Len(threads) = 2
  /\ \E k \in Delivered(1) : log[k].fn = "show_error"
  /\ threads[1].fetches = 1
  /\ threads[2].pc = "fetch"
  /\ error_window # None

\* what the remote answer r alone makes the terminal state: the window a
\* resolution that reached the request ends with
RemoteOutcome(r) ==
  IF r.kind = "transport"
  THEN [fn |-> "show_error",
        window |-> [state |-> "shown", message |-> "Network error occurred"]]
  ELSE IF r.shape = "list" /\ r.items # <<>>
  THEN [fn |-> "show_results", window |-> Rendered(r.items[1])]
  ELSE IF r.shape = "dict" /\ r.title # NULL
  THEN [fn |-> "show_error",
        window |-> [state |-> "shown", message |-> r.title]]
  ELSE [fn |-> "show_error",
        window |-> [state |-> "shown", message |-> "No definition found"]]

\* C11: when opening or querying the store raises, the resolution goes on to
\* the remote request instead of ending: the thread is never over without a
\* request made, nothing is delivered for the failure itself, and the
\* terminal state it delivers is the one the remote answer alone decides,
\* also when the table has rows for the word.
C11_ReadFailureFallsThrough ==
  /\ [](\A i \in 1..Len(threads) :
          threads[i].lookup = "error" =>
            /\ threads[i].pc \in {"fetch", "post_hide", "post_show"}
            /\ threads[i].pc = "fetch" =>
                 Pending(i) = {} /\ Delivered(i) = {}
            /\ threads[i].pc # "fetch" => threads[i].fetches = 1)
  /\ [][Delivers =>
          LET cb == Head(after_queue) IN
          (cb.lookup = "error" /\ Terminal(cb.fn)) =>
            /\ threads[cb.thread].fetches = 1
            /\ cb.response.kind \in {"json", "transport", "nonjson"}
            /\ cb.response.kind # "nonjson" =>
                 /\ cb.fn = RemoteOutcome(cb.response).fn
                 /\ cb.fn = "show_results" =>
                      result_window' = RemoteOutcome(cb.response).window
                 /\ cb.fn = "show_error" =>
                      error_window' = RemoteOutcome(cb.response).window ]_vars

\* the table had rows for the word, the read raised, and the entry on screen
\* is the remote one
C11_Witness ==
  /\ Len(threads) = 1
  /\ ExactLookup(store, threads[1].word) # <<>>
  /\ Len(log) = 2
  /\ log[2].fn = "show_results"
  /\ threads[1].fetches = 1
  /\ result_window # None
  /\ result_window.phonetic = "/fon/"

\* C12: a remote answer that is neither a non-empty list nor an object with a
\* title, a body that is not JSON included, ends the resolution with the
\* error "No definition found".
C12_MalformedIsNotFound ==
  [][Delivers =>
       LET cb == Head(after_queue)
           r  == cb.response
       IN (Terminal(cb.fn)
             /\ (r.kind = "nonjson"
                   \/ (r.kind = "json" /\ ~IsEntryList(r) /\ ~HasTitle(r)))) =>
            /\ cb.fn = "show_error"
            /\ error_window' =
                 [state |-> "shown", message |-> "No definition found"]
     ]_vars

\* the suggestion list on screen
ShownList == IF suggestion_popup # None THEN suggestion_items ELSE <<>>

\* the step was a run of show_suggestions
Queries(how) == how \in {"too_short", "no_database", "query_failed", "queried"}

\* C13: a submit whose text is empty after trimming, or is the placeholder,
\* is turned away without any effect: no thread is created, the loading
\* window does not appear, no window is hidden, and the entry, the popup, its
\* items, the selection index and the pending timer stay as they were.
C13_RejectedSubmitHasNoEffect ==
  [][ /\ (last' \in {"rejected", "dropped", "started"}
            /\ (Strip(entry) = <<>> \/ Strip(entry) = PLACEHOLDER)) =>
           last' = "rejected"
      /\ last' = "rejected" =>
           UNCHANGED << entry, windows, suggestion_vars, thread_vars,
                        after_queue, log >> ]_vars

\* <Return> on a blank entry while a list was on screen with nothing
\* selected: the input window and the list are still there
C13_Witness ==
  /\ last = "rejected"
  /\ Strip(entry) = <<>>
  /\ input_window = "shown"
  /\ suggestion_popup # None
  /\ Len(suggestion_items) = 8
  /\ threads = <<>>

\* C14: the suggestion list never has more than 8 items and no lemma twice;
\* the list changes, and the popup opens, only in a run of show_suggestions
\* that queried the store for a trimmed fragment of at least 2 characters;
\* and the store is never queried for a shorter fragment.
C14_SuggestionListBounded ==
  /\ [](Len(suggestion_items) <= 8 /\ NoRepeats(suggestion_items))
  /\ [][ /\ (suggestion_items' # suggestion_items
               \/ (suggestion_popup = None /\ suggestion_popup' # None)) =>
              /\ last' = "queried"
              /\ Len(Strip(entry)) >= 2
              /\ suggestion_items' # <<>>
         /\ last' \in {"queried", "query_failed"} =>
              Len(Strip(entry)) >= 2 ]_vars

\* nine lemmas begin with the fragment, eight are listed and the last of
\* them is selected
C14_Witness ==
  /\ suggestion_popup # None
  /\ Len(suggestion_items) = 8
  /\ selected_suggestion_index = 7
  /\ Strip(entry) = <<"C", "a">>

\* C15: a key release leaves no timer of an earlier key release pending.
\* With fewer than 2 characters typed (the placeholder counts as nothing
\* typed) the popup is closed in that very step, no timer is left and the
\* store is not read; otherwise exactly one timer is pending afterwards, the
\* one just scheduled, and the popup is untouched.  A query therefore runs
\* only from the timer of the latest key release.
C15_FragmentChangeDebounces ==
  /\ [][ last' \in {"scheduled", "rescheduled", "cleared"} =>
           LET fragment == Strip(entry) IN
           /\ timers' \subseteq {suggestion_after_id'}
           /\ UNCHANGED << suggestion_items, selected_suggestion_index,
                           last_suggestions, entry >>
           /\ IF Len(fragment) < 2 \/ fragment = PLACEHOLDER
              THEN /\ last' = "cleared"
                   /\ suggestion_popup' = None
                   /\ timers' = {}
              ELSE /\ last' # "cleared"
                   /\ timers' = {suggestion_after_id'}
                   /\ suggestion_after_id' # 0
                   /\ UNCHANGED suggestion_popup ]_vars
  /\ [][ Queries(last') =>
           /\ timers = {suggestion_after_id}
           /\ timers' = {} ]_vars

\* a list had been shown; one character is left in the entry and the list is
\* gone with no timer pending
C15_Witness ==
  /\ last = "cleared"
  /\ Strip(entry) = <<"c">>
  /\ last_suggestions # <<>>
  /\ suggestion_popup = None
  /\ timers = {}
  /\ suggestion_after_id # 0

\* C16: at most one timer of show_suggestions is pending in every reachable
\* state, and a run of show_suggestions uses it up: after any number of key
\* releases at most one run follows before the next key release.
C16_AtMostOnePendingQuery ==
  /\ [](Cardinality(timers) <= 1)
  /\ [][ Queries(last') => timers # {} /\ timers' = {} ]_vars
  /\ [][ Cardinality(timers') > Cardinality(timers) =>
           last' = "scheduled" ]_vars

\* a key release found the timer of the one before still pending and
\* replaced it
C16_Witness ==
  /\ last = "rescheduled"
  /\ Cardinality(timers) = 1
  /\ suggestion_popup # None

\* C17: a run of show_suggestions that finds no wordnet.db leaves no list on
\* screen; a run that reads the store leaves the result of the prefix query
\* on screen.
C17_UnavailableStoreClearsList ==
  [][ /\ last' = "no_database" => suggestion_popup' = None
      /\ last' = "queried" =>
           ShownList' = PrefixSearch(store, Strip(entry), query_plan) ]_vars

\* C18: when the query returns the list that is on screen, the popup, its
\* items and the selection index stay as they are; when it returns another
\* list, the selection index is -1 afterwards.
C18_EqualListKeepsCursor ==
  [][ last' = "queried" =>
        LET suggestions == PrefixSearch(store, Strip(entry), query_plan) IN
        IF suggestions = ShownList
        THEN UNCHANGED << suggestion_popup, suggestion_items,
                          selected_suggestion_index >>
        ELSE selected_suggestion_index' = -1 ]_vars

\* C19: the selection index is at least -1 and less than the length of the
\* list on screen, so it is -1 when no list is on screen.
C19_CursorInRange ==
  /\ selected_suggestion_index >= -1
  /\ selected_suggestion_index < Len(ShownList)

\* C20: <Tab>, or <Return> with an item selected, on a list with the
\* selection at index i >= 0 puts exactly the lemma of item i into the
\* entry, closes the list and sets the selection index to -1; <Tab> with
\* nothing selected or no list on screen changes neither the entry nor the
\* list nor the selection index.
C20_AcceptReplacesQueryText ==
  [][ last' \in {"accepted", "ignored"} =>
        IF suggestion_popup # None /\ selected_suggestion_index >= 0
        THEN /\ last' = "accepted"
             /\ selected_suggestion_index < Len(suggestion_items)
             /\ entry' = suggestion_items[selected_suggestion_index + 1]
             /\ suggestion_popup' = None
             /\ selected_suggestion_index' = -1
        ELSE /\ last' = "ignored"
             /\ UNCHANGED << entry, suggestion_popup, suggestion_items,
                             selected_suggestion_index >> ]_vars

\* an item that is not the first of the list was accepted
C20_Witness ==
  /\ last = "accepted"
  /\ entry = CARE
  /\ suggestion_popup = None
  /\ selected_suggestion_index = -1

\* lemma begins with fragment, letters compared without regard to case
StartsWith(lemma, fragment) ==
  /\ Len(lemma) >= Len(fragment)
  /\ LowerSeq(SubSeq(lemma, 1, Len(fragment))) = LowerSeq(fragment)

\* C21: a suggestion query that reads the store shows exactly the lemmas that
\* begin with the trimmed fragment, each once, in the order of their first
\* row in the table, the first 8 of them.
C21_PrefixQueryInStoreOrder ==
  [][ last' = "queried" =>
        LET fragment == Strip(entry)
            matching ==
              SelectSeq(store, LAMBDA r : StartsWith(r.lemma, fragment))
            lemmas ==
              Distinct([k \in 1..Len(matching) |-> matching[k].lemma])
        IN ShownList' =
             SubSeq(lemmas, 1, IF Len(lemmas) < 8 THEN Len(lemmas) ELSE 8)
    ]_vars

\* what a result window shows of an entry
Content(w) == [word |-> w.word, phonetic |-> w.phonetic,
               meanings |-> w.meanings]

\* the threads whose show_results the main loop has run, in that order
ShownBy == SelectSeq(log, LAMBDA e : e.fn = "show_results")

C23_HistoryIsLifo ==
  [][ /\ last' = "push" =>
           /\ Len(history') = Len(history) + 1
           /\ SubSeq(history', 1, Len(history)) = history
           /\ returned' = returned
      /\ (last' = "pop" /\ history # <<>>) =>
           /\ returned' = history[Len(history)]
           /\ Len(history') = Len(history) - 1
           /\ \A k \in 1..Len(history') : history'[k] = history[k]
      /\ (last' = "pop" /\ history = <<>>) =>
           /\ returned' = Empty
           /\ history' = <<>> ]_vars

\* pop() has returned "cat", pushed after "car", and "car" is still there
C23_Witness ==
  /\ last = "pop"
  /\ returned = CAT
  /\ history = << CAR >>

C25_LookupFoldsCaseDisplayKeepsIt ==
  [][ Delivers =>
        LET cb == Head(after_queue)
            word == threads[cb.thread].word
        IN (cb.fn = "show_results" /\ FromRows(cb)) =>
             /\ \A text \in CaseTexts :
                  LowerSeq(Strip(text)) = LowerSeq(word) =>
                    result_window'.meanings =
                      Rendered(OfflineData(Strip(text),
                                 ExactLookup(store, Strip(text)))).meanings
             /\ result_window'.word \in
                  {word} \cup {RowsOf(cb)[k].lemma : k \in 1..Len(RowsOf(cb))}
    ]_vars

\* C26: no thread is started while a terminal callback of a returned thread
\* is still queued; so every show_results/show_error the main loop runs is
\* the latest thread's, and a hide_loading_window it runs for an earlier
\* thread never finds a later thread alive.
C26_NoStartBeforeDelivery ==
  /\ [][ Len(threads') > Len(threads) =>
           \A k \in 1..Len(after_queue) : ~Terminal(after_queue[k].fn) ]_vars
  /\ [][ (Delivers /\ Terminal(Head(after_queue).fn)) =>
           Head(after_queue).thread = Len(threads) ]_vars
  /\ [][ (Delivers /\ Head(after_queue).fn = "hide_loading_window"
                   /\ Head(after_queue).thread # Len(threads)) =>
           ~IsAlive(Len(threads)) ]_vars

\* C27: while the input window is hidden (after <Escape> or a submit) no
\* suggestion list is on screen, and a timer left pending neither queries
\* the store nor opens the list.
C27_NoListOnceHidden ==
  /\ [](input_window = "withdrawn" => suggestion_popup = None)
  /\ [][ (input_window = "withdrawn" /\ Queries(last')) =>
           /\ last' \notin {"queried", "query_failed"}
           /\ suggestion_popup' = None ]_vars

\* C28: a submit dropped because a thread is alive leaves the input window
\* visible, the entry text, the suggestion list and the selection index as
\* they were.
C28_DroppedSubmitKeepsPresentation ==
  [][ last' = "dropped" =>
        UNCHANGED << input_window, entry, suggestion_vars >> ]_vars

\* C29: with a list of n items on screen <Down> sets the selection index to
\* min(index + 1, n - 1) and <Up> to max(index - 1, -1), so neither wraps;
\* with no list on screen both leave the index as it is; neither changes
\* the entry, the list or the timer.
C29_ArrowKeysClamp ==
  [][ /\ last' = "down" =>
           selected_suggestion_index' =
             IF suggestion_popup = None THEN selected_suggestion_index
             ELSE IF selected_suggestion_index + 1 <= Len(suggestion_items) - 1
             THEN selected_suggestion_index + 1
             ELSE Len(suggestion_items) - 1
      /\ last' = "up" =>
           selected_suggestion_index' =
             IF suggestion_popup = None THEN selected_suggestion_index
             ELSE IF selected_suggestion_index - 1 >= -1
             THEN selected_suggestion_index - 1
             ELSE -1
      /\ last' \in {"down", "up"} =>
           UNCHANGED << entry, windows, suggestion_popup, suggestion_items,
                        suggestion_query, thread_vars >> ]_vars

\* the selection has been moved down to the last of eight items
C29_Witness ==
  /\ last = "down"
  /\ suggestion_popup # None
  /\ Len(suggestion_items) = 8
  /\ selected_suggestion_index = Len(suggestion_items) - 1
  /\ timers = {}

Visible ==
  {w \in {"input", "loading", "result", "error"} :
     \/ w = "input" /\ input_window = "shown"
     \/ w = "loading" /\ loading_window.state = "shown"
     \/ w = "result" /\ result_window.state = "shown"
     \/ w = "error" /\ error_window.state = "shown"}

\* C31: in every reachable state at most one of the input, loading, result
\* and error windows is on screen.
C31_AtMostOneViewVisible == Cardinality(Visible) <= 1

\* the synset has a lemma the builder keeps that the word matches
Writes(synset, word) ==
  \E i \in 1..Len(synset.lemma_names) :
    LET lemma == synset.lemma_names[i] IN
    /\ Len(lemma) <= 50
    /\ " " \notin Range(lemma)
    /\ LowerSeq([k \in 1..Len(lemma) |->
                   IF lemma[k] = "_" THEN " " ELSE lemma[k]]) = LowerSeq(word)

\* the examples shown under definition text d of part of speech p, provided
\* the window has exactly one meaning p with exactly one definition d
ExamplesShown(w, p, d) ==
  LET ms == {i \in 1..Len(w.meanings) : w.meanings[i].partOfSpeech = p} IN
  IF Cardinality(ms) # 1 THEN <<"none">>
  ELSE LET defs == w.meanings[CHOOSE i \in ms : TRUE].definitions
           ds == {j \in 1..Len(defs) : defs[j].definition = d}
       IN IF Cardinality(ds) # 1 THEN <<"none">>
          ELSE defs[CHOOSE j \in ds : TRUE].examples

\* the examples of the synsets that put rows of part of speech p and
\* definition text d under the word, in corpus order
ExamplesWritten(word, p, d) ==
  Flatten([k \in 1..Len(wordnet) |->
             IF /\ Writes(wordnet[k], word)
                /\ wordnet[k].pos = p
                /\ wordnet[k].definition = d
             THEN wordnet[k].examples ELSE <<>>])

\* the entry resolved from a table populated once
OncePopulated(word) ==
  Rendered(OfflineData(word, ExactLookup(PopulatedRows(wordnet), word)))

\* C32 as stated: a result delivered from the rows of the store shows, for
\* every synset with a kept lemma matching the word, exactly one definition
\* with the synset's text under its part of speech, and the examples of that
\* definition are the synset's examples, each once, in their order; the entry
\* is the same however often the table was populated.
C32_BuilderRoundTrip ==
  [][ Delivers =>
        LET cb == Head(after_queue)
            word == threads[cb.thread].word
        IN (cb.fn = "show_results" /\ FromRows(cb)) =>
             /\ \A k \in 1..Len(wordnet) :
                  Writes(wordnet[k], word) =>
                    ExamplesShown(result_window', wordnet[k].pos,
                                  wordnet[k].definition)
                      = Distinct(wordnet[k].examples)
             /\ Content(result_window') = Content(OncePopulated(word)) ]_vars

\* C32 as amended: the examples of that definition are the examples of all
\* synsets with that part of speech and definition text that have a kept
\* lemma matching the word, in corpus order, each once.
C32_BuilderRoundTripMergingEqualGlosses ==
  [][ Delivers =>
        LET cb == Head(after_queue)
            word == threads[cb.thread].word
        IN (cb.fn = "show_results" /\ FromRows(cb)) =>
             /\ \A k \in 1..Len(wordnet) :
                  Writes(wordnet[k], word) =>
                    ExamplesShown(result_window', wordnet[k].pos,
                                  wordnet[k].definition)
                      = Distinct(ExamplesWritten(word, wordnet[k].pos,
                                                 wordnet[k].definition))
             /\ Content(result_window') = Content(OncePopulated(word)) ]_vars

\* two synsets of "cat" with the same gloss, one with a repeated example,
\* written twice: one definition on screen with the examples of both
C32_Witness ==
  /\ Len(wordnet) = 2
  /\ wordnet[1].definition = wordnet[2].definition
  /\ wordnet[1].pos = wordnet[2].pos
  /\ wordnet[1].lemma_names = <<CAT>>
  /\ wordnet[2].lemma_names = <<CAT>>
  /\ wordnet[1].examples = <<"the cat sat", "a cat purrs", "the cat sat">>
  /\ wordnet[2].examples = <<>>
  /\ Len(store) = 8
  /\ result_window # None
  /\ result_window.state = "shown"
  /\ Len(result_window.meanings) = 1
  /\ Len(result_window.meanings[1].definitions) = 1
  /\ result_window.meanings[1].definitions[1].examples =
       <<"the cat sat", "a cat purrs">>

\* C33: a run of show_suggestions whose read raises ends like a query without
\* matches: the popup is gone, the remembered list is empty, no window
\* appears or disappears and nothing is posted or logged.  What follows is
\* not affected: the next query that reads the store shows its result, and a
\* <Return> with typed text and no live worker starts a resolution of it.
C33_SuggestionReadFailureSwallowed ==
  [][ /\ last' = "query_failed" =>
           /\ suggestion_popup' = None
           /\ last_suggestions' = <<>>
           /\ ShownList' = <<>>
           /\ UNCHANGED << entry, windows, thread_vars, after_queue, log >>
      /\ (last' = "queried" /\ last_suggestions = <<>>) =>
           ShownList' = PrefixSearch(store, Strip(entry), query_plan)
      /\ (last = "query_failed" /\ last' \in {"rejected", "dropped", "started"}) =>
           IF active_fetch_thread # 0 /\ IsAlive(active_fetch_thread)
           THEN last' = "dropped"
           ELSE /\ last' = "started"
                /\ threads'[Len(threads')].word = Strip(entry) ]_vars

\* a list was on screen when the read failed: the popup is gone and the
\* remembered list empty
C33_Witness ==
  /\ last = "query_failed"
  /\ suggestion_items # <<>>
  /\ suggestion_popup = None
  /\ last_suggestions = <<>>
  /\ input_window = "shown"
  /\ error_window = None

====
